---- MODULE Spec2Model ----
(***************************************************************************)
(* go-check-certs: hostname discovery (providers) -> TLS inspection        *)
(* (SimpleCheck) -> alert aggregation and delivery (DDingNotify).          *)
(*                                                                         *)
(* Strings are sequences of one-character strings, so that TrimSpace,      *)
(* Split, Sprintf and Join are computed as the Go code computes them.      *)
(* Warning messages are sequences of tokens whose first token is the       *)
(* literal part of the format string.  Times are integers counted in       *)
(* ticks of 1/TicksPerHour hour, relative to the start of the process.     *)
(***************************************************************************)
EXTENDS Integers, Sequences, FiniteSets, TLC

VARIABLES
    file,       \* contents of the hostname file of the file provider
    warnDays,   \* config.WarnDays
    clock,      \* what time.Now() returns in an inspection
    outcomes,   \* what tls.Dial may return for a well-formed address
    cycle,      \* iterations of main's for loop started so far
    provs,      \* FileProvider.GetAllRecords goroutines
    hostChan,   \* hostChan, the buffered channel of hostnames
    checkers,   \* SimpleCheck.Check dispatch loops reading hostChan
    tasks,      \* checkHostHttps goroutines
    msgs,       \* DDingNotify.Send: the map msgs
    aggPc,      \* DDingNotify.Send: "select" or "post" (inside httpClient.Post)
    tickC,      \* ticker.C holds a tick
    sent,       \* the calls of httpClient.Post made so far
    pushed,     \* history: what the file provider sent into hostChan
    window,     \* history: CheckResults received since the last flush
    notifies,   \* len(config.Notifies)
    others,     \* the DDingNotify.Send goroutines of config.Notifies[1:]
    fetches,    \* goroutines of the Aliyun and West providers
    log,        \* what the providers have logged
    Timeout,    \* config.Timeout
    elapsed,    \* seconds since main made its channels
    tickAt,     \* when the ticker of Send next puts a tick into ticker.C
    wakeAt,     \* when the time.Sleep of main returns
    starts      \* history: when each cycle started, and how far the next tick was

vars == <<file, warnDays, clock, outcomes, cycle, provs, hostChan, checkers,
          tasks, msgs, aggPc, tickC, sent, pushed, window, notifies, others,
          fetches, log, Timeout, elapsed, tickAt, wakeAt, starts>>

\* What main and the ticker keep of time.
timing == <<Timeout, elapsed, tickAt, wakeAt, starts>>

(***************************************************************************)
(* Bounds of the model.                                                    *)
(***************************************************************************)
TicksPerHour == 2
MaxCycles == 1
MaxHostLen == 4
MaxLines == 2
MaxChains == 2
MaxChainLen == 3
MaxPageRecords == 1
PollCycles == 2
QueueHosts == 52
MaxTimeout == 7
CadenceCycles == 3

(***************************************************************************)
(* Constants of the program.                                               *)
(***************************************************************************)
cacheSize == 50
shortlyHours == 48
hoursPerDay == 24
processStart == 0
date2017 == -100000

(***************************************************************************)
(* Strings.                                                                *)
(***************************************************************************)
Str443 == <<":", "4", "4", "3">>
placeholder == <<"a", "b", "c", "d", "e", "f", "z", "h", "k", "i">>
NL == "\n"

IndexOf(s, c) ==
    IF \E i \in 1..Len(s) : s[i] = c
    THEN CHOOSE i \in 1..Len(s) : s[i] = c /\ \A j \in 1..(i - 1) : s[j] # c
    ELSE 0

RECURSIVE Split(_, _)
Split(s, sep) ==
    LET i == IndexOf(s, sep)
    IN  IF i = 0 THEN <<s>>
        ELSE <<SubSeq(s, 1, i - 1)>> \o Split(SubSeq(s, i + 1, Len(s)), sep)

RECURSIVE Join(_, _)
Join(parts, sep) ==
    IF parts = <<>> THEN <<>>
    ELSE IF Len(parts) = 1 THEN parts[1]
    ELSE parts[1] \o <<sep>> \o Join(Tail(parts), sep)

IsSpace(c) == c \in {" ", "\t", "\r", NL}

RECURSIVE TrimLeft(_)
TrimLeft(s) ==
    IF s # <<>> /\ IsSpace(s[1]) THEN TrimLeft(Tail(s)) ELSE s

RECURSIVE TrimRight(_)
TrimRight(s) ==
    IF s # <<>> /\ IsSpace(s[Len(s)]) THEN TrimRight(SubSeq(s, 1, Len(s) - 1)) ELSE s

TrimSpace(s) == TrimRight(TrimLeft(s))

Contains(s, sub) ==
    \E i \in 1..(Len(s) + 1) :
        i + Len(sub) - 1 <= Len(s) /\ SubSeq(s, i, i + Len(sub) - 1) = sub

Digit(d) == <<"0", "1", "2", "3", "4", "5", "6", "7", "8", "9">>[d + 1]

RECURSIVE FmtInt(_)
FmtInt(n) ==
    IF n < 0 THEN <<"-">> \o FmtInt(0 - n)
    ELSE IF n < 10 THEN <<Digit(n)>>
    ELSE FmtInt(n \div 10) \o <<Digit(n % 10)>>

\* Go's integer division and float-to-integer conversion truncate toward zero.
TruncDiv(a, b) == IF a >= 0 THEN a \div b ELSE 0 - ((0 - a) \div b)

(***************************************************************************)
(* check.go: messages, the table of deprecated signature algorithms.       *)
(***************************************************************************)
errExpiringShortly(n) == <<"expires in ">> \o FmtInt(n) \o <<" hours">>
errExpiringSoon(n) == <<"expires in ">> \o FmtInt(n) \o <<" days">>
errSunsetAlg(name) ==
    <<"expires after the sunset date for its signature algorithm '", name, "'.">>
errExpired == <<"SSLCertificate has expired">>

sunsetSigAlgs ==
    ("MD2WithRSA" :> [name |-> "MD2 with RSA", sunsetsAt |-> processStart]) @@
    ("MD5WithRSA" :> [name |-> "MD5 with RSA", sunsetsAt |-> processStart]) @@
    ("SHA1WithRSA" :> [name |-> "SHA1 with RSA", sunsetsAt |-> date2017]) @@
    ("DSAWithSHA1" :> [name |-> "DSA with SHA1", sunsetsAt |-> date2017]) @@
    ("ECDSAWithSHA1" :> [name |-> "ECDSA with SHA1", sunsetsAt |-> date2017])

CheckResult(host, msg) == [Host |-> host, WarnMsg |-> msg]

RECURSIVE Flatten(_)
Flatten(ss) == IF ss = <<>> THEN <<>> ELSE ss[1] \o Flatten(Tail(ss))

(***************************************************************************)
(* SimpleCheck.checkHostHttps, in the order of its statements.             *)
(***************************************************************************)
\* Mutant of skipHost: the '@' sentinel is not looked at.
skipHostEmptyOnly(host) == host = <<>>

\* if host == "" || host[0] == '@' { return }
skipHost(host) == host = <<>> \/ host[1] = "@"

\* The two rewrites of host before tls.Dial.
dialAddr(host) ==
    LET h1 == IF Len(Split(host, ":")) = 1 THEN host \o Str443 ELSE host
    IN  IF h1[1] = "*" THEN placeholder \o Tail(h1) \o Str443 ELSE h1

\* tls.Dial("tcp", addr, nil): an address with more than one colon (and no
\* brackets) is refused before any connection is made; otherwise the peer and
\* the network decide (o).
errBadAddr == <<"too", "many", "colons", "in", "address">>
tlsDial(addr, o) ==
    IF Len(Split(addr, ":")) # 2 THEN [err |-> errBadAddr, chains |-> <<>>] ELSE o

\* Mutant of dialErrResults: every dial error is reported as an expired certificate.
dialErrResultsAny(host, err) == <<[Host |-> host, WarnMsg |-> <<"SSLCertificate has expired">>]>>

\* if err != nil { if strings.Contains(err.Error(), "certificate has expired") ...
dialErrResults(host, err) ==
    IF Contains(err, <<"certificate", "has", "expired">>)
    THEN <<CheckResult(host, errExpired)>>
    ELSE <<>>

\* Mutant of expiryResults: "expiresIn < 48" for "expiresIn <= 48".
expiryResultsStrict(host, cert, timeNow, wd) ==
    IF timeNow + wd * hoursPerDay * TicksPerHour > cert.NotAfter
    THEN LET expiresIn == TruncDiv(cert.NotAfter - timeNow, TicksPerHour)
         IN  IF expiresIn < shortlyHours
             THEN <<[Host |-> host, WarnMsg |-> errExpiringShortly(expiresIn)]>>
             ELSE <<[Host |-> host, WarnMsg |-> errExpiringSoon(TruncDiv(expiresIn, hoursPerDay))]>>
    ELSE <<>>

\* // Check the expiration.
expiryResults(host, cert, timeNow, wd) ==
    IF timeNow + wd * hoursPerDay * TicksPerHour > cert.NotAfter
    THEN LET expiresIn == TruncDiv(cert.NotAfter - timeNow, TicksPerHour)
         IN  IF expiresIn <= shortlyHours
             THEN <<CheckResult(host, errExpiringShortly(expiresIn))>>
             ELSE <<CheckResult(host, errExpiringSoon(TruncDiv(expiresIn, hoursPerDay)))>>
    ELSE <<>>

\* Mutant of sunsetResults: the root certificate is not ignored.
sunsetResultsWithRoot(host, cert, certNum, chainLen) ==
    IF cert.SignatureAlgorithm \in DOMAIN sunsetSigAlgs
    THEN LET alg == sunsetSigAlgs[cert.SignatureAlgorithm]
         IN  IF cert.NotAfter = alg.sunsetsAt \/ cert.NotAfter > alg.sunsetsAt
             THEN <<[Host |-> host, WarnMsg |-> errSunsetAlg(alg.name)]>>
             ELSE <<>>
    ELSE <<>>

\* // Check the signature algorithm, ignoring the root certificate.
\* certNum counts from 1 here, so the root is at certNum = chainLen.
sunsetResults(host, cert, certNum, chainLen) ==
    IF cert.SignatureAlgorithm \in DOMAIN sunsetSigAlgs /\ certNum # chainLen
    THEN LET alg == sunsetSigAlgs[cert.SignatureAlgorithm]
         IN  IF cert.NotAfter = alg.sunsetsAt \/ cert.NotAfter > alg.sunsetsAt
             THEN <<CheckResult(host, errSunsetAlg(alg.name))>>
             ELSE <<>>
    ELSE <<>>

\* What the two nested loops send, in order.  Each CheckResult is kept with the
\* position (chain, certNum) of the certificate it was produced for.
tagged(rs, c, j) == [i \in 1..Len(rs) |-> [res |-> rs[i], chain |-> c, certNum |-> j]]

\* Mutant of chainResults: the expiry check ignores the root certificate too.
chainResultsSkipRoot(host, chains, timeNow, wd) ==
    Flatten([c \in 1..Len(chains) |->
        Flatten([j \in 1..Len(chains[c]) |->
            tagged((IF j = Len(chains[c]) THEN <<>>
                    ELSE expiryResults(host, chains[c][j], timeNow, wd))
                     \o sunsetResults(host, chains[c][j], j, Len(chains[c])),
                   c, j)])])

chainResults(host, chains, timeNow, wd) ==
    Flatten([c \in 1..Len(chains) |->
        Flatten([j \in 1..Len(chains[c]) |->
            tagged(expiryResults(host, chains[c][j], timeNow, wd)
                     \o sunsetResults(host, chains[c][j], j, Len(chains[c])),
                   c, j)])])

NewTask(host) ==
    [host |-> host, pc |-> "start", dialed |-> FALSE, addr |-> <<>>, err |-> <<>>,
     chains |-> <<>>, timeNow |-> 0, emitted |-> <<>>, out |-> <<>>]

\* checkHostHttps up to its first send on sc.out (or its return).
CheckHostHttps(t) ==
    /\ tasks[t].pc = "start"
    /\ IF skipHost(tasks[t].host)
       THEN tasks' = [tasks EXCEPT ![t].pc = "done"]
       ELSE \E o \in outcomes :
            \E addr \in {dialAddr(tasks[t].host)} :
            \E r \in {tlsDial(addr, o)} :
            \E em \in {IF r.err # <<>>
                        THEN tagged(dialErrResults(addr, r.err), 0, 0)
                        ELSE chainResults(addr, r.chains, clock, warnDays)} :
                  tasks' = [tasks EXCEPT ![t] =
                      [host |-> @.host, pc |-> IF em = <<>> THEN "done" ELSE "send",
                       dialed |-> TRUE, addr |-> addr, err |-> r.err,
                       chains |-> r.chains, timeNow |-> clock,
                       emitted |-> em, out |-> em]]
    /\ UNCHANGED <<file, warnDays, clock, outcomes, cycle, provs, hostChan, checkers,
                   msgs, aggPc, tickC, sent, pushed, window,
                   notifies, others, fetches, log,
                   timing>>

\* Mutant of Dispatch: every dispatch loop gets the hostname.
DispatchToAll ==
    /\ checkers > 0
    /\ hostChan # <<>>
    /\ tasks' = tasks \o [i \in 1..checkers |-> NewTask(Head(hostChan))]
    /\ hostChan' = Tail(hostChan)
    /\ UNCHANGED <<file, warnDays, clock, outcomes, cycle, provs, checkers,
                   msgs, aggPc, tickC, sent, pushed, window,
                   notifies, others, fetches, log,
                   timing>>

\* SimpleCheck.Check: one iteration of a dispatch loop, for host := range sc.in.
Dispatch ==
    /\ checkers > 0
    /\ hostChan # <<>>
    /\ tasks' = Append(tasks, NewTask(Head(hostChan)))
    /\ hostChan' = Tail(hostChan)
    /\ UNCHANGED <<file, warnDays, clock, outcomes, cycle, provs, checkers,
                   msgs, aggPc, tickC, sent, pushed, window,
                   notifies, others, fetches, log,
                   timing>>

(***************************************************************************)
(* FileProvider.GetAllRecords.                                             *)
(***************************************************************************)
NewProv == [pc |-> "read", lines |-> <<>>, i |-> 0]

\* if len(host) == 0 || host[0] == '#' { continue }
skipLine(line) ==
    LET host == TrimSpace(line) IN host = <<>> \/ host[1] = "#"

\* contents, err := os.ReadFile(fp.file); lines := strings.Split(..., "\n")
ReadFile(p) ==
    /\ provs[p].pc = "read"
    /\ \E ok \in BOOLEAN :
         provs' = [provs EXCEPT ![p] =
            IF ok THEN [pc |-> "loop", lines |-> Split(file, NL), i |-> 1]
            ELSE [pc |-> "done", lines |-> <<>>, i |-> 0]]
    /\ UNCHANGED <<file, warnDays, clock, outcomes, cycle, hostChan, checkers, tasks,
                   msgs, aggPc, tickC, sent, pushed, window,
                   notifies, others, fetches, log,
                   timing>>

\* One iteration of for _, line := range lines; the send blocks on a full channel.
FileLine(p) ==
    /\ provs[p].pc = "loop"
    /\ LET line == provs[p].lines[provs[p].i]
           last == provs[p].i = Len(provs[p].lines)
       IN  /\ provs' = [provs EXCEPT ![p].i = @ + 1,
                                     ![p].pc = IF last THEN "done" ELSE "loop"]
           /\ IF skipLine(line)
              THEN UNCHANGED <<hostChan, pushed>>
              ELSE /\ Len(hostChan) < cacheSize
                   /\ hostChan' = Append(hostChan, TrimSpace(line))
                   /\ pushed' = Append(pushed, [line |-> line, host |-> TrimSpace(line)])
    /\ UNCHANGED <<file, warnDays, clock, outcomes, cycle, checkers, tasks,
                   msgs, aggPc, tickC, sent, window,
                   notifies, others, fetches, log,
                   timing>>

(***************************************************************************)
(* AliyunProvider and WestDigitalProvider.  A goroutine of a remote        *)
(* provider is a record of fetches: kind says which function it runs.      *)
(* The listing API decides what each call returns: a transport error, a    *)
(* status other than 200, or a page of records with the total count.  A    *)
(* page of up to defaultSize records is represented by its first           *)
(* MaxPageRecords records.                                                 *)
(***************************************************************************)
defaultSize == 100
maxRetry == 3
dnsTypes == <<"A", "CNAME">>

NewFetch(kind, domain, dnsType, page, total) ==
    [kind |-> kind, domain |-> domain, dnsType |-> dnsType, page |-> page,
     retry |-> 0, pc |-> "call", toPush |-> <<>>, total |-> total,
     lastErr |-> "nil", sentHosts |-> <<>>]

\* fmt.Sprintf("%s.%s", rr, domain)
hostOf(rr, domain) == rr \o <<".">> \o domain

\* The total counts the API may report for a unit: none, one page, the last
\* record of a page, the first of the next.
TotalCounts == {0, 1, defaultSize, defaultSize + 1, 2 * defaultSize + 1}

\* What the zone of the model holds: any of these numbers of A records, one
\* CNAME record.  A page goroutine is told the count its first page reported.
zoneTotals(f) ==
    IF f.kind = "fetchWithRetry" THEN {f.total}
    ELSE IF f.dnsType = "A" THEN TotalCounts ELSE {1}

\* The records the API lists on a page of a unit of total records in all.
recordsOnPage(page, total) ==
    LET n == total - (page - 1) * defaultSize
        k == IF n < 0 THEN 0 ELSE IF n > MaxPageRecords THEN MaxPageRecords ELSE n
    IN  [i \in 1..k |-> <<"r", Digit(page), Digit(i)>>]

\* Mutant of pageCount: the remainder is not counted.
pageCountFloor(total) == total \div defaultSize

\* cnt := TotalCount / defaultSize; if TotalCount % defaultSize != 0 { cnt++ }
pageCount(total) ==
    IF total % defaultSize # 0 THEN total \div defaultSize + 1 ELSE total \div defaultSize

\* AliyunProvider.GetAllRecords: one getRecords goroutine per domain and type.
aliyunUnits(domains) ==
    Flatten([d \in 1..Len(domains) |->
        [k \in 1..Len(dnsTypes) |->
            NewFetch("getRecords", TrimSpace(domains[d]), dnsTypes[k], 1, 0)]])

AliyunGetAllRecords(f) ==
    /\ fetches[f].kind = "AliyunProvider"
    /\ fetches[f].pc = "call"
    /\ fetches' = [fetches EXCEPT ![f].pc = "done"] \o aliyunUnits(fetches[f].domain)
    /\ UNCHANGED <<file, warnDays, clock, outcomes, cycle, provs, hostChan, checkers,
                   tasks, msgs, aggPc, tickC, sent, pushed, window,
                   notifies, others, log,
                   timing>>

\* for page := int64(2); page <= totalPage; page++ { go ap.fetchWithRetry(...) }
pagesFrom(f, cnt) ==
    [i \in 1..(IF cnt < 2 THEN 0 ELSE cnt - 1) |->
        NewFetch("fetchWithRetry", f.domain, f.dnsType, i + 1, f.total)]

\* log.Printf("Get domain %s total page failed %s", domain, err); the record
\* type is kept with the entry to tell the two units of a domain apart.
logTotalPageFailed(domain, dnsType) ==
    [text |-> "Get domain total page failed", domain |-> domain, dnsType |-> dnsType]

\* } else { lastErr = err } and retry++; the loop ends when retry = maxRetry.
\* A call that came back with a status other than 200 has err == nil.
afterFailure(f, r) ==
    [f EXCEPT !.retry = @ + 1, !.lastErr = IF r = "error" THEN "error" ELSE "nil",
              !.pc = IF f.retry + 1 < maxRetry THEN "call" ELSE "failed"]

\* Mutant of getRecordsFailed: only err is looked at.
getRecordsFailedErrOnly(totalPage, err) == err # "nil"

\* if err != nil || totalPage < 0 { log.Printf(...); return }
getRecordsFailed(totalPage, err) == err # "nil" \/ totalPage < 0

\* fetchWithRetry: one call of DescribeDomainRecordsWithOptions.  A failed call
\* is retried; after the last one fetchWithRetry returns -1, lastErr, and
\* getRecords logs and returns.  A successful call goes on to send its records
\* (AliyunSend); it returns cnt, nil.
AliyunCall(f) ==
    /\ fetches[f].kind \in {"getRecords", "fetchWithRetry"}
    /\ fetches[f].pc = "call"
    /\ \E r \in {"ok", "error", "status"} :
        IF r = "ok"
        THEN /\ \E total \in zoneTotals(fetches[f]) :
                  fetches' = [fetches EXCEPT ![f].pc = "send",
                                  ![f].total = total,
                                  ![f].lastErr = "nil",
                                  ![f].toPush = recordsOnPage(fetches[f].page, total)]
             /\ log' = log
        ELSE LET g == afterFailure(fetches[f], r)
             IN  /\ fetches' = [fetches EXCEPT ![f] = g]
                 /\ log' = IF /\ g.pc = "failed"
                              /\ g.kind = "getRecords"
                              /\ getRecordsFailed(0 - 1, g.lastErr)
                           THEN Append(log, logTotalPageFailed(g.domain, g.dnsType))
                           ELSE log
    /\ UNCHANGED <<file, warnDays, clock, outcomes, cycle, provs, hostChan, checkers,
                   tasks, msgs, aggPc, tickC, sent, pushed, window,
                   notifies, others,
                   timing>>

\* for _, record := range resp.Body.DomainRecords.Record { out <- ... }, one
\* iteration, and after the last one the return of cnt; getRecords then starts
\* the goroutines of the other pages.
AliyunSend(f) ==
    /\ fetches[f].kind \in {"getRecords", "fetchWithRetry"}
    /\ fetches[f].pc = "send"
    /\ IF fetches[f].toPush # <<>>
       THEN /\ Len(hostChan) < cacheSize
            /\ hostChan' = Append(hostChan, hostOf(Head(fetches[f].toPush), fetches[f].domain))
            /\ fetches' = [fetches EXCEPT
                    ![f].toPush = Tail(@),
                    ![f].sentHosts = Append(@, hostOf(Head(fetches[f].toPush), fetches[f].domain))]
       ELSE /\ hostChan' = hostChan
            /\ fetches' = [fetches EXCEPT ![f].pc = "done"]
                 \o (IF fetches[f].kind = "getRecords"
                     THEN pagesFrom(fetches[f], pageCount(fetches[f].total))
                     ELSE <<>>)
    /\ UNCHANGED <<file, warnDays, clock, outcomes, cycle, provs, checkers,
                   tasks, msgs, aggPc, tickC, sent, pushed, window,
                   notifies, others, log,
                   timing>>

\* WestDigitalProvider.GetAllRecords: one goroutine per domain and type.
westUnits(domains) ==
    Flatten([d \in 1..Len(domains) |->
        [k \in 1..Len(dnsTypes) |-> NewFetch("west", domains[d], dnsTypes[k], 1, 0)]])

WestGetAllRecords(f) ==
    /\ fetches[f].kind = "WestDigitalProvider"
    /\ fetches[f].pc = "call"
    /\ fetches' = [fetches EXCEPT ![f].pc = "done"] \o westUnits(fetches[f].domain)
    /\ UNCHANGED <<file, warnDays, clock, outcomes, cycle, provs, hostChan, checkers,
                   tasks, msgs, aggPc, tickC, sent, pushed, window,
                   notifies, others, log,
                   timing>>

\* What the API lists for a domain and type: wp.Body.Items.
westItems ==
    <<[hostname |-> <<"w">>, pause |-> 0], [hostname |-> <<"p">>, pause |-> 1],
      [hostname |-> <<"v">>, pause |-> 0]>>

RECURSIVE notPaused(_)
\* if record["pause"].(float64) == 0 { out <- ... }
notPaused(items) ==
    IF items = <<>> THEN <<>>
    ELSE (IF items[1].pause = 0 THEN <<items[1].hostname>> ELSE <<>>) \o notPaused(Tail(items))

logWestRetry(f) ==
    [text |-> "WARN provider west digital get record failed, try again in 1 seconds",
     domain |-> f.domain, dnsType |-> f.dnsType]
logWestExceed(f) ==
    [text |-> "ERROR provider west digital failed exceed", domain |-> f.domain,
     dnsType |-> f.dnsType]

\* for i := 0; i < maxRetry; i++ { if err := ...; err != nil { ...; continue } ...
westAfterFailure(f, r) ==
    [f EXCEPT !.retry = @ + 1, !.lastErr = "error",
              !.pc = IF f.retry + 1 < maxRetry THEN "call" ELSE "failed"]

\* One call of queryDomainRecord up to its first send: the POST fails, the body
\* is no JSON, the answer has code 500, or the items are listed.
WestCall(f) ==
    /\ fetches[f].kind = "west"
    /\ fetches[f].pc = "call"
    /\ \E r \in {"ok", "error", "json", "code500"} :
        IF r = "ok"
        THEN /\ fetches' = [fetches EXCEPT ![f].pc = "send",
                                ![f].lastErr = "nil",
                                ![f].toPush = notPaused(SubSeq(westItems, 1, MaxPageRecords + 1))]
             /\ log' = log
        ELSE LET g == westAfterFailure(fetches[f], r)
             IN  /\ fetches' = [fetches EXCEPT ![f] = g]
                 /\ log' = log \o <<logWestRetry(g)>>
                              \o (IF g.pc = "failed" THEN <<logWestExceed(g)>> ELSE <<>>)
    /\ UNCHANGED <<file, warnDays, clock, outcomes, cycle, provs, hostChan, checkers,
                   tasks, msgs, aggPc, tickC, sent, pushed, window,
                   notifies, others,
                   timing>>

\* The sends of queryDomainRecord, one at a time, then return nil.
WestSend(f) ==
    /\ fetches[f].kind = "west"
    /\ fetches[f].pc = "send"
    /\ IF fetches[f].toPush # <<>>
       THEN /\ Len(hostChan) < cacheSize
            /\ hostChan' = Append(hostChan, hostOf(Head(fetches[f].toPush), fetches[f].domain))
            /\ fetches' = [fetches EXCEPT
                    ![f].toPush = Tail(@),
                    ![f].sentHosts = Append(@, hostOf(Head(fetches[f].toPush), fetches[f].domain))]
       ELSE /\ hostChan' = hostChan
            /\ fetches' = [fetches EXCEPT ![f].pc = "done"]
    /\ UNCHANGED <<file, warnDays, clock, outcomes, cycle, provs, checkers,
                   tasks, msgs, aggPc, tickC, sent, pushed, window,
                   notifies, others, log,
                   timing>>

(***************************************************************************)
(* DDingNotify.Send.                                                       *)
(***************************************************************************)
EmptyMap == <<>>

\* Mutants of bufferAdd: the bucket is overwritten; the host is put in front.
bufferAddOverwrite(m, res) ==
    [w \in DOMAIN m \cup {res.WarnMsg} |-> IF w = res.WarnMsg THEN <<res.Host>> ELSE m[w]]
bufferAddFront(m, res) ==
    [w \in DOMAIN m \cup {res.WarnMsg} |->
        IF w = res.WarnMsg
        THEN <<res.Host>> \o (IF w \in DOMAIN m THEN m[w] ELSE <<>>)
        ELSE m[w]]

\* msgs[msg.WarnMsg] = append(msgs[msg.WarnMsg], msg.Host)
bufferAdd(m, res) ==
    [w \in DOMAIN m \cup {res.WarnMsg} |->
        IF w = res.WarnMsg
        THEN Append(IF w \in DOMAIN m THEN m[w] ELSE <<>>, res.Host)
        ELSE m[w]]

\* for msg, hosts := range msgs { sendMsgs = append(sendMsgs, msg); ... hosts... }
\* for the order ord in which range visits the keys.
sendMsgs(m, ord) ==
    Flatten([k \in 1..Len(ord) |-> <<ord[k]>> \o m[ord[k]]])

\* strings.Join(sendMsgs, "\n")
payloadOf(m, ord) == Join(sendMsgs(m, ord), NL)

\* Mutant of msgsAfterPost: the map is kept when the Post failed.
msgsKeptOnFailure(m, ok) == IF ok THEN <<>> ELSE m

\* msgs = make(map[string][]string, 0), after the Post whatever its result
msgsAfterPost(m, ok) == EmptyMap

Orders(S) ==
    {f \in [1..Cardinality(S) -> S] : \A i, j \in 1..Cardinality(S) : f[i] = f[j] => i = j}

\* case msg := <-dn.ch, meeting the send of task t on the unbuffered resChan.
Receive(t) ==
    /\ aggPc = "select"
    /\ tasks[t].pc = "send"
    /\ LET res == Head(tasks[t].out).res
       IN  /\ msgs' = bufferAdd(msgs, res)
           /\ window' = Append(window, res)
    /\ tasks' = [tasks EXCEPT ![t].out = Tail(@),
                              ![t].pc = IF Len(tasks[t].out) = 1 THEN "done" ELSE "send"]
    /\ UNCHANGED <<file, warnDays, clock, outcomes, cycle, provs, hostChan, checkers,
                   aggPc, tickC, sent, pushed,
                   notifies, others, fetches, log,
                   timing>>

\* The ticker puts a tick into ticker.C (capacity one; a tick that finds it full
\* is dropped).
TimerFire ==
    /\ ~tickC
    /\ tickC' = TRUE
    /\ UNCHANGED <<file, warnDays, clock, outcomes, cycle, provs, hostChan, checkers,
                   tasks, msgs, aggPc, sent, pushed, window,
                   notifies, others, fetches, log,
                   timing>>

\* case <-ticker.C, up to the call of httpClient.Post.
Tick ==
    /\ aggPc = "select"
    /\ tickC
    /\ tickC' = FALSE
    /\ IF DOMAIN msgs = {}
       THEN UNCHANGED <<aggPc, sent>>
       ELSE /\ aggPc' = "post"
            /\ \E ord \in Orders(DOMAIN msgs) :
                 sent' = Append(sent, [payload |-> payloadOf(msgs, ord), result |-> "pending"])
    /\ UNCHANGED <<file, warnDays, clock, outcomes, cycle, provs, hostChan, checkers,
                   tasks, msgs, pushed, window,
                   notifies, others, fetches, log,
                   timing>>

\* Mutant of PostReturn: the Post has no timeout and the sink never answers.
PostHangs ==
    /\ aggPc = "post"
    /\ UNCHANGED vars

\* httpClient.Post returns (within defaultTimeout), and the map is replaced.
PostReturn ==
    /\ aggPc = "post"
    /\ \E ok \in BOOLEAN :
         /\ sent' = [sent EXCEPT ![Len(sent)].result = IF ok THEN "ok" ELSE "failed"]
         /\ msgs' = msgsAfterPost(msgs, ok)
    /\ aggPc' = "select"
    /\ window' = <<>>
    /\ UNCHANGED <<file, warnDays, clock, outcomes, cycle, provs, hostChan, checkers,
                   tasks, tickC, pushed,
                   notifies, others, fetches, log,
                   timing>>

(***************************************************************************)
(* The DDingNotify.Send goroutines of the other configured notifiers, that *)
(* the main of src/unnamed/part_002 starts on the same resChan (the main   *)
(* of check-certs.go starts none).  Each has its own map, ticker and url.  *)
(***************************************************************************)
NewNotifier == [msgs |-> EmptyMap, aggPc |-> "select", tickC |-> FALSE, sent |-> <<>>]

OtherReceive(n, t) ==
    /\ others[n].aggPc = "select"
    /\ tasks[t].pc = "send"
    /\ others' = [others EXCEPT ![n].msgs = bufferAdd(@, Head(tasks[t].out).res)]
    /\ tasks' = [tasks EXCEPT ![t].out = Tail(@),
                              ![t].pc = IF Len(tasks[t].out) = 1 THEN "done" ELSE "send"]
    /\ UNCHANGED <<file, warnDays, clock, outcomes, cycle, provs, hostChan, checkers,
                   msgs, aggPc, tickC, sent, pushed, window, notifies, fetches, log,
                   timing>>

OtherTimerFire(n) ==
    /\ ~others[n].tickC
    /\ others' = [others EXCEPT ![n].tickC = TRUE]
    /\ UNCHANGED <<file, warnDays, clock, outcomes, cycle, provs, hostChan, checkers,
                   tasks, msgs, aggPc, tickC, sent, pushed, window, notifies,
                   fetches, log,
                   timing>>

OtherTick(n) ==
    /\ others[n].aggPc = "select"
    /\ others[n].tickC
    /\ IF DOMAIN others[n].msgs = {}
       THEN others' = [others EXCEPT ![n].tickC = FALSE]
       ELSE \E ord \in Orders(DOMAIN others[n].msgs) :
              others' = [others EXCEPT
                  ![n].tickC = FALSE,
                  ![n].aggPc = "post",
                  ![n].sent = Append(@, [payload |-> payloadOf(others[n].msgs, ord),
                                         result |-> "pending"])]
    /\ UNCHANGED <<file, warnDays, clock, outcomes, cycle, provs, hostChan, checkers,
                   tasks, msgs, aggPc, tickC, sent, pushed, window, notifies,
                   fetches, log,
                   timing>>

OtherPostReturn(n) ==
    /\ others[n].aggPc = "post"
    /\ \E ok \in BOOLEAN :
         others' = [others EXCEPT
             ![n].sent[Len(others[n].sent)].result = IF ok THEN "ok" ELSE "failed",
             ![n].msgs = msgsAfterPost(@, ok),
             ![n].aggPc = "select"]
    /\ UNCHANGED <<file, warnDays, clock, outcomes, cycle, provs, hostChan, checkers,
                   tasks, msgs, aggPc, tickC, sent, pushed, window, notifies,
                   fetches, log,
                   timing>>

(***************************************************************************)
(* main: one iteration of the for loop.                                    *)
(***************************************************************************)
NewCycle ==
    /\ cycle' = cycle + 1
    /\ provs' = Append(provs, NewProv)
    /\ checkers' = checkers + 1
    /\ UNCHANGED <<file, warnDays, clock, outcomes, hostChan, tasks,
                   msgs, aggPc, tickC, sent, pushed, window,
                   notifies, others, fetches, log,
                   timing>>

\* The cycles of the whole pipeline.
StartCycle == cycle < MaxCycles /\ NewCycle

\* The cycles of discovery and dispatch on their own.
StartPollCycle == cycle < PollCycles /\ NewCycle

(***************************************************************************)
(* Time, in seconds: the time.Sleep of main and the ticker of Send.  The   *)
(* go statements of main and Check return at once, so an iteration of the  *)
(* loop takes no time beside its Sleep.                                    *)
(***************************************************************************)
checkInterval == 86400
tenSeconds == 10

\* waitTime := time.Duration(config.Timeout) * 10 * time.Second
waitTime == Timeout * tenSeconds

\* time.Sleep(d) returns at once when d <= 0.
sleepFor(d) == IF d > 0 THEN d ELSE 0

\* One iteration of main's for loop, when its Sleep has returned: it starts
\* the provider and the dispatch loop and sleeps checkInterval - waitTime,
\* whatever the goroutines it started are doing.
StartTimedCycle ==
    /\ cycle < CadenceCycles
    /\ elapsed = wakeAt
    /\ cycle' = cycle + 1
    /\ provs' = Append(provs, NewProv)
    /\ checkers' = checkers + 1
    /\ starts' = Append(starts, [at |-> elapsed, toTick |-> tickAt - elapsed])
    /\ wakeAt' = elapsed + sleepFor(checkInterval - waitTime)
    /\ UNCHANGED <<file, warnDays, clock, outcomes, hostChan, tasks,
                   msgs, aggPc, tickC, sent, pushed, window,
                   notifies, others, fetches, log, Timeout, elapsed, tickAt>>

\* The ticker made by time.NewTicker(waitTime) in Send: every waitTime it puts
\* a tick into ticker.C (a tick that finds it full is dropped).
TickerFire ==
    /\ elapsed = tickAt
    /\ tickC' = TRUE
    /\ tickAt' = tickAt + waitTime
    /\ UNCHANGED <<file, warnDays, clock, outcomes, cycle, provs, hostChan, checkers,
                   tasks, msgs, aggPc, sent, pushed, window,
                   notifies, others, fetches, log, Timeout, elapsed, wakeAt, starts>>

\* Time passes, up to the next tick or the end of main's Sleep.
TimePasses ==
    /\ cycle < CadenceCycles
    /\ elapsed < tickAt
    /\ elapsed < wakeAt
    /\ elapsed' = IF tickAt < wakeAt THEN tickAt ELSE wakeAt
    /\ UNCHANGED <<file, warnDays, clock, outcomes, cycle, provs, hostChan, checkers,
                   tasks, msgs, aggPc, tickC, sent, pushed, window,
                   notifies, others, fetches, log, Timeout, tickAt, wakeAt, starts>>

(***************************************************************************)
(* Inputs.                                                                 *)
(***************************************************************************)
BoundedSeq(S, n) == UNION {[1..k -> S] : k \in 0..n}

Hours(h) == h * TicksPerHour

Cert(notAfter, alg) == [NotAfter |-> notAfter, SignatureAlgorithm |-> alg]

errX509Expired ==
    <<"x509:", "certificate", "has", "expired", "or", "is", "not", "yet", "valid">>
errRefused == <<"connect:", "connection", "refused">>

DialError(err) == [err |-> err, chains |-> <<>>]
DialOk(chains) == [err |-> <<>>, chains |-> chains]

\* The certificates above the leaf, by chain: roots and intermediates, some
\* signed with SHA1, one of them expiring in 50 hours, and a root that expires
\* in 40 hours.
rootGood == Cert(Hours(100000), "SHA256WithRSA")
rootSha1 == Cert(Hours(50000), "SHA1WithRSA")
interSha1 == Cert(Hours(50), "SHA1WithRSA")
interGood == Cert(Hours(20000), "SHA256WithRSA")
rootOld == Cert(Hours(40), "SHA256WithRSA")
CAPaths ==
    {<<>>, <<rootGood>>, <<rootSha1>>, <<rootOld>>, <<interSha1, rootGood>>,
     <<interGood, rootSha1>>, <<interSha1, interGood, rootGood>>}

\* Time left on the leaf, in ticks: around each threshold of the code.
Remaining ==
    {0, Hours(24), Hours(48) - 1, Hours(48), Hours(48) + 1, Hours(49),
     Hours(72) - 1, Hours(72)}
LeafAlgs == {"SHA256WithRSA", "MD5WithRSA"}
WarnDaysSet == {0, 1, 3}

\* conn.ConnectionState().VerifiedChains: every chain starts with the leaf.
ChainSets(leaf) ==
    LET rests == {p \in CAPaths : Len(p) < MaxChainLen}
    IN  {[c \in DOMAIN rs |-> <<leaf>> \o rs[c]] :
            rs \in UNION {[1..k -> rests] : k \in 1..MaxChains}}

\* Hostnames handed to the inspector.
HostChars == {"*", "@", ":", "#", "a"}
HostStrings == BoundedSeq(HostChars, MaxHostLen)

\* Lines of a hostname file.
FileLines ==
    {<<>>, <<" ">>, <<"#", "a">>, <<" ", "#", "a">>, <<"@", "a">>, <<"a">>,
     <<" ", "a", "\r">>, <<"*", "a">>, <<"a", ":", "8">>}
Files(lines) == {Join(ls, NL) : ls \in BoundedSeq(lines, MaxLines)}

\* What a reachable server may answer.
fewOutcomes ==
    {DialError(errX509Expired), DialError(errRefused),
     DialOk(<<<<Cert(Hours(10 * hoursPerDay) + 1, "SHA1WithRSA"), rootGood>>>>),
     DialOk(<<<<Cert(Hours(20000), "SHA256WithRSA"), interGood, rootGood>>>>)}

\* The same, with at most one CheckResult per host.
pipeOutcomes ==
    {DialError(errX509Expired), DialError(errRefused),
     DialOk(<<<<Cert(Hours(10 * hoursPerDay) + 1, "SHA256WithRSA"), rootGood>>>>)}

\* Nothing has run yet.
Quiet ==
    /\ clock = processStart
    /\ tasks = <<>>
    /\ msgs = EmptyMap
    /\ aggPc = "select"
    /\ tickC = FALSE
    /\ sent = <<>>
    /\ pushed = <<>>
    /\ window = <<>>
    /\ log = <<>>

\* Time left out: the ticker and main's Sleep are due whenever they are
\* scheduled (TimerFire, StartCycle).
Untimed ==
    /\ Timeout = 1
    /\ elapsed = 0
    /\ tickAt = 0
    /\ wakeAt = 0
    /\ starts = <<>>

Idle == Quiet /\ Untimed

(***************************************************************************)
(* The program: main starts the notifier, then its cycles, on a hostname   *)
(* file of a few hosts.                                                    *)
(***************************************************************************)
pipeLines == <<<<"a">>, <<"#", "a">>, <<" ", "a", ":", "8">>>>

Init ==
    /\ Idle
    /\ file = Join(pipeLines, NL)
    /\ warnDays = 30
    /\ outcomes = pipeOutcomes
    /\ cycle = 0
    /\ provs = <<>>
    /\ hostChan = <<>>
    /\ checkers = 0
    /\ notifies = 1
    /\ others = <<>>
    /\ fetches = <<>>

Next ==
    \/ StartCycle
    \/ \E p \in DOMAIN provs : ReadFile(p)
    \/ \E p \in DOMAIN provs : FileLine(p)
    \/ Dispatch
    \/ \E t \in DOMAIN tasks : CheckHostHttps(t)
    \/ \E t \in DOMAIN tasks : Receive(t)
    \/ TimerFire
    \/ Tick
    \/ PostReturn

Spec == Init /\ [][Next]_vars

(***************************************************************************)
(* The same program under the scheduling Go gives it.  Every goroutine     *)
(* that can take a step takes one: the providers, the dispatch loops, the  *)
(* inspections (a dial returns), the ticker, and the Post, which returns   *)
(* within defaultTimeout.  The select of Send picks at random among its    *)
(* ready cases, so neither case is passed over for ever, and the senders   *)
(* blocked on resChan are served in turn: a sender that is ready again     *)
(* and again is received from.                                             *)
(***************************************************************************)
LiveProvs == 1..MaxCycles
LiveTasks == 1..(MaxCycles * Len(pipeLines))

Fairness ==
    /\ WF_vars(StartCycle)
    /\ \A p \in LiveProvs : WF_vars(p \in DOMAIN provs /\ ReadFile(p))
    /\ \A p \in LiveProvs : WF_vars(p \in DOMAIN provs /\ FileLine(p))
    /\ WF_vars(Dispatch)
    /\ \A t \in LiveTasks : WF_vars(t \in DOMAIN tasks /\ CheckHostHttps(t))
    /\ \A t \in LiveTasks : SF_vars(t \in DOMAIN tasks /\ Receive(t))
    /\ WF_vars(TimerFire)
    /\ SF_vars(Tick)
    /\ WF_vars(PostReturn)

SpecLive == Init /\ [][Next]_vars /\ Fairness

(***************************************************************************)
(* The file provider and the inspector on their own, over all their        *)
(* inputs: one cycle has started, and either the file provider reads a     *)
(* file of any lines, or a source has sent one hostname of any form and    *)
(* the server answers in one given way.  The results are received as they  *)
(* are sent.                                                               *)
(***************************************************************************)
InitFile ==
    /\ file \in Files(FileLines)
    /\ warnDays = 3
    /\ outcomes = fewOutcomes
    /\ provs = <<NewProv>>
    /\ hostChan = <<>>

InitHost ==
    /\ file = <<>>
    /\ provs = <<>>
    /\ \/ /\ hostChan \in {<<h>> : h \in HostStrings}
          /\ outcomes = fewOutcomes
          /\ warnDays = 3
       \/ /\ hostChan = <<<<"a">>>>
          /\ warnDays \in WarnDaysSet
          /\ \E d \in Remaining, alg \in LeafAlgs :
               \E cs \in ChainSets(Cert(processStart + d, alg)) :
                 outcomes = {DialOk(cs)}

InitUnit ==
    /\ Idle
    /\ cycle = 1
    /\ checkers = 1
    /\ notifies = 1
    /\ others = <<>>
    /\ fetches = <<>>
    /\ (InitFile \/ InitHost)

NextUnit ==
    \/ \E p \in DOMAIN provs : ReadFile(p)
    \/ \E p \in DOMAIN provs : FileLine(p)
    \/ Dispatch
    \/ \E t \in DOMAIN tasks : CheckHostHttps(t)
    \/ \E t \in DOMAIN tasks : Receive(t)

SpecUnit == InitUnit /\ [][NextUnit]_vars

(***************************************************************************)
(* The remote providers on their own: a cycle has started an Aliyun or a   *)
(* West provider, and the dispatch loop takes the hostnames they send.     *)
(***************************************************************************)
RemoteDomains == {<<<<" ", "x">>>>}

InitRemote ==
    /\ Idle
    /\ file = <<>>
    /\ warnDays = 3
    /\ outcomes = {DialError(errRefused)}
    /\ cycle = 1
    /\ provs = <<>>
    /\ hostChan = <<>>
    /\ checkers = 1
    /\ notifies = 1
    /\ others = <<>>
    /\ \E kind \in {"AliyunProvider", "WestDigitalProvider"}, ds \in RemoteDomains :
         fetches = <<NewFetch(kind, ds, "", 0, 0)>>

NextRemote ==
    \/ \E f \in DOMAIN fetches : AliyunGetAllRecords(f)
    \/ \E f \in DOMAIN fetches : AliyunCall(f)
    \/ \E f \in DOMAIN fetches : AliyunSend(f)
    \/ \E f \in DOMAIN fetches : WestGetAllRecords(f)
    \/ \E f \in DOMAIN fetches : WestCall(f)
    \/ \E f \in DOMAIN fetches : WestSend(f)
    \/ Dispatch

SpecRemote == InitRemote /\ [][NextRemote]_vars

(***************************************************************************)
(* Discovery and dispatch over several cycles of main: the file provider   *)
(* and the dispatch loops that the cycles start on the one hostChan, with  *)
(* inspections that end without a result.                                  *)
(***************************************************************************)
InitPoll ==
    /\ Idle
    /\ file = Join(<<<<"a">>, <<"#", "a">>, <<" ", "b", ":", "8">>>>, NL)
    /\ warnDays = 30
    /\ outcomes = {DialError(errRefused)}
    /\ cycle = 0
    /\ provs = <<>>
    /\ hostChan = <<>>
    /\ checkers = 0
    /\ notifies = 1
    /\ others = <<>>
    /\ fetches = <<>>

NextPoll ==
    \/ StartPollCycle
    \/ \E p \in DOMAIN provs : ReadFile(p)
    \/ \E p \in DOMAIN provs : FileLine(p)
    \/ Dispatch
    \/ \E t \in DOMAIN tasks : CheckHostHttps(t)

SpecPoll == InitPoll /\ [][NextPoll]_vars

(***************************************************************************)
(* Two configured notifiers.  The main of check-certs.go starts the first  *)
(* only; the main of src/unnamed/part_002 starts both on the one resChan.  *)
(* A cycle has started on a file of two hosts with expiring certificates.  *)
(***************************************************************************)
InitNotify ==
    /\ Idle
    /\ file = Join(<<<<"a">>, <<"b">>>>, NL)
    /\ warnDays = 30
    /\ outcomes = {DialOk(<<<<Cert(Hours(10 * hoursPerDay) + 1, "SHA256WithRSA"), rootGood>>>>)}
    /\ cycle = 1
    /\ provs = <<NewProv>>
    /\ hostChan = <<>>
    /\ checkers = 1
    /\ notifies = 2
    /\ others \in {<<>>, <<NewNotifier>>}
    /\ fetches = <<>>

NextNotify ==
    \/ \E p \in DOMAIN provs : ReadFile(p)
    \/ \E p \in DOMAIN provs : FileLine(p)
    \/ Dispatch
    \/ \E t \in DOMAIN tasks : CheckHostHttps(t)
    \/ \E t \in DOMAIN tasks : Receive(t)
    \/ TimerFire
    \/ Tick
    \/ PostReturn
    \/ \E n \in DOMAIN others, t \in DOMAIN tasks : OtherReceive(n, t)
    \/ \E n \in DOMAIN others : OtherTimerFire(n)
    \/ \E n \in DOMAIN others : OtherTick(n)
    \/ \E n \in DOMAIN others : OtherPostReturn(n)

SpecNotify == InitNotify /\ [][NextNotify]_vars

(***************************************************************************)
(* The hostname queue under load: a cycle has started on a file of         *)
(* QueueHosts hosts, and no inspection has returned yet (tls.Dial is       *)
(* called without a deadline).                                             *)
(***************************************************************************)
InitQueue ==
    /\ Idle
    /\ file = Join([i \in 1..QueueHosts |-> <<"a">>], NL)
    /\ warnDays = 30
    /\ outcomes = {DialError(errRefused)}
    /\ cycle = 1
    /\ provs = <<NewProv>>
    /\ hostChan = <<>>
    /\ checkers = 1
    /\ notifies = 1
    /\ others = <<>>
    /\ fetches = <<>>

NextQueue ==
    \/ \E p \in DOMAIN provs : ReadFile(p)
    \/ \E p \in DOMAIN provs : FileLine(p)
    \/ Dispatch

SpecQueue == InitQueue /\ [][NextQueue]_vars

(***************************************************************************)
(* The cadence: main and the ticker of its notifier in time, for every     *)
(* config.Timeout from 1 to MaxTimeout (time.NewTicker panics on a         *)
(* waitTime of 0 or less).  The Send goroutine makes its ticker as main    *)
(* enters its loop.                                                        *)
(***************************************************************************)
InitCadence ==
    /\ Quiet
    /\ file = <<"a">>
    /\ warnDays = 30
    /\ outcomes = {DialError(errRefused)}
    /\ cycle = 0
    /\ provs = <<>>
    /\ hostChan = <<>>
    /\ checkers = 0
    /\ notifies = 1
    /\ others = <<>>
    /\ fetches = <<>>
    /\ Timeout \in 1..MaxTimeout
    /\ elapsed = 0
    /\ tickAt = Timeout * tenSeconds
    /\ wakeAt = 0
    /\ starts = <<>>

NextCadence ==
    \/ StartTimedCycle
    \/ TickerFire
    \/ Tick
    \/ TimePasses

SpecCadence == InitCadence /\ [][NextCadence]_vars

(***************************************************************************)
(* Properties.  What a payload says is read back from its text: a line     *)
(* that starts with the literal part of a message format is a message, and *)
(* any other line is a host under the last message.                        *)
(***************************************************************************)
MsgHeads ==
    {"expires in ", "expires after the sunset date for its signature algorithm '",
     "SSLCertificate has expired"}

RECURSIVE linesToResults(_, _)
linesToResults(ls, cur) ==
    IF ls = <<>> THEN <<>>
    ELSE IF ls[1] # <<>> /\ ls[1][1] \in MsgHeads
         THEN linesToResults(Tail(ls), ls[1])
         ELSE <<CheckResult(ls[1], cur)>> \o linesToResults(Tail(ls), cur)

payloadResults(p) == linesToResults(Split(p, NL), <<>>)

Count(seq, x) == Cardinality({i \in DOMAIN seq : seq[i] = x})
SameBag(a, b) == Len(a) = Len(b) /\ \A i \in DOMAIN a : Count(a, a[i]) = Count(b, a[i])

RECURSIVE hostsWith(_, _)
hostsWith(rs, msg) ==
    IF rs = <<>> THEN <<>>
    ELSE (IF rs[1].WarnMsg = msg THEN <<rs[1].Host>> ELSE <<>>) \o hostsWith(Tail(rs), msg)

TickStep == tickC /\ ~tickC'
PostReturnStep == aggPc = "post" /\ aggPc' = "select"

\* C1: on a timer tick with an empty buffer no delivery call is made and the
\* buffer stays empty; on a tick with a non-empty buffer exactly one delivery
\* call is made (none at any other step), and when that call returns, with
\* success or with failure, the buffer is empty.
C1_TickFlush ==
    [][/\ TickStep =>
            IF DOMAIN msgs = {}
            THEN sent' = sent /\ DOMAIN msgs' = {} /\ aggPc' = "select"
            ELSE Len(sent') = Len(sent) + 1 /\ aggPc' = "post"
       /\ ~TickStep => Len(sent') = Len(sent)
       /\ PostReturnStep =>
            /\ DOMAIN msgs' = {}
            /\ sent'[Len(sent')].result \in {"ok", "failed"}
       /\ (aggPc = "post" /\ ~PostReturnStep) => msgs' = msgs]_vars

\* C1 witness: a delivery has failed and the buffer is empty again.
C1_Witness ==
    /\ aggPc = "select"
    /\ DOMAIN msgs = {}
    /\ \E i \in DOMAIN sent : sent[i].result = "failed"

\* C2: the payload handed to the sink at a tick holds exactly the CheckResults
\* received since the previous flush, each once: none dropped, none carried
\* over from before, and no payload when none was received.
C2_NoFindingLost ==
    [][TickStep =>
         IF window = <<>>
         THEN sent' = sent
         ELSE /\ Len(sent') = Len(sent) + 1
              /\ SubSeq(sent', 1, Len(sent)) = sent
              /\ SameBag(payloadResults(sent'[Len(sent')].payload), window)]_vars

\* C2 witness: a second flush has been made, after a first one that failed, and
\* the two payloads differ.
C2_Witness ==
    /\ Len(sent) = 2
    /\ sent[1].result = "failed"
    /\ payloadResults(sent[1].payload) # payloadResults(sent[2].payload)

\* C3: the buffer has one bucket per distinct message text received in the
\* current window, and each bucket lists the hosts of the results with that
\* message in the order they arrived.
C3_BucketsByMessage ==
    /\ DOMAIN msgs = {window[i].WarnMsg : i \in DOMAIN window}
    /\ \A m \in DOMAIN msgs : msgs[m] = hostsWith(window, m)

\* C3 witness: two different hosts with the same "expires in 10 days" message
\* are in one bucket, and it is the only bucket.
C3_Witness ==
    /\ DOMAIN msgs = {<<"expires in ", "1", "0", " days">>}
    /\ \E m \in DOMAIN msgs : Len(msgs[m]) = 2 /\ msgs[m][1] # msgs[m][2]

hasColon(h) == \E i \in DOMAIN h : h[i] = ":"

\* C4: a wildcard hostname is dialed with the placeholder in place of its '*' and
\* with exactly one port suffix (":443" when it had none); any other hostname
\* is dialed with ":443" appended when it has no port and unchanged when it has.
C4_Normalization ==
    \A t \in DOMAIN tasks :
        tasks[t].dialed =>
            LET h == tasks[t].host
            IN  tasks[t].addr =
                    IF h[1] = "*"
                    THEN placeholder \o Tail(h) \o (IF hasColon(h) THEN <<>> ELSE Str443)
                    ELSE IF hasColon(h) THEN h ELSE h \o Str443

blankLine(l) == \A i \in DOMAIN l : IsSpace(l[i])
firstInk(l) == l[CHOOSE i \in DOMAIN l : ~IsSpace(l[i]) /\ \A j \in 1..(i - 1) : IsSpace(l[j])]

\* C5: the file provider never sends a blank or '#'-prefixed line into the
\* hostname queue (every hostname in the queue or taken from it was sent from
\* a line with text that does not start with '#'), and the inspector neither
\* dials nor produces a result for an empty or '@'-prefixed hostname.
C5_SkippedLines ==
    /\ \A i \in DOMAIN pushed :
          /\ ~blankLine(pushed[i].line)
          /\ firstInk(pushed[i].line) # "#"
          /\ pushed[i].host # <<>>
          /\ pushed[i].host[1] # "#"
    /\ provs # <<>> =>
          [i \in DOMAIN pushed |-> pushed[i].host]
              = [i \in DOMAIN tasks |-> tasks[i].host] \o hostChan
    /\ \A t \in DOMAIN tasks :
          (tasks[t].host = <<>> \/ tasks[t].host[1] = "@") =>
              /\ ~tasks[t].dialed
              /\ tasks[t].emitted = <<>>
              /\ tasks[t].out = <<>>
              /\ tasks[t].pc \in {"start", "done"}

\* C5 witness: the provider has gone through a file of a '#' line and an '@'
\* line, has sent only the second, and its inspection has ended without a dial.
C5_Witness ==
    /\ provs # <<>>
    /\ provs[1].pc = "done"
    /\ provs[1].lines = <<<<" ", "#", "a">>, <<"@", "a">>>>
    /\ Len(pushed) = 1
    /\ hostChan = <<>>
    /\ Len(tasks) = 1
    /\ tasks[1].pc = "done"
    /\ tasks[1].host = <<"@", "a">>
    /\ ~tasks[1].dialed

inspected(t) == tasks[t].dialed /\ tasks[t].err = <<>>
isHoursMsg(m) == m[1] = "expires in " /\ m[Len(m)] = " hours"
isDaysMsg(m) == m[1] = "expires in " /\ m[Len(m)] = " days"
isSunsetMsg(m) == m[1] = "expires after the sunset date for its signature algorithm '"
timeLeft(t, cert) == cert.NotAfter - tasks[t].timeNow
Occurrences(t) ==
    UNION {{<<c, j>> : j \in DOMAIN tasks[t].chains[c]} : c \in DOMAIN tasks[t].chains}
itemsAt(t, c, j) ==
    {i \in DOMAIN tasks[t].emitted :
        tasks[t].emitted[i].chain = c /\ tasks[t].emitted[i].certNum = j}
itemsOf(t, cert) ==
    {i \in DOMAIN tasks[t].emitted :
        /\ tasks[t].emitted[i].chain > 0
        /\ tasks[t].chains[tasks[t].emitted[i].chain][tasks[t].emitted[i].certNum] = cert}

\* C6: for an inspected host whose certificate expires after now, not after
\* now + warnDays and in more than 48 hours, the inspection emits exactly one
\* "expires in N days" result for that certificate, N = floor(hours left / 24),
\* however many verified chains there are.
C6_OneDaysResult ==
    \A t \in DOMAIN tasks :
        inspected(t) =>
            LET leaf == tasks[t].chains[1][1]
                d == timeLeft(t, leaf)
                days == {i \in itemsOf(t, leaf) : isDaysMsg(tasks[t].emitted[i].res.WarnMsg)}
            IN  (d > 0 /\ d <= Hours(warnDays * hoursPerDay) /\ d > Hours(shortlyHours)) =>
                    /\ Cardinality(days) = 1
                    /\ \A i \in days :
                         tasks[t].emitted[i].res.WarnMsg
                            = <<"expires in ">> \o FmtInt((d \div TicksPerHour) \div hoursPerDay)
                                \o <<" days">>

\* C7 as claimed: for an inspected host whose certificate expires within 48
\* hours, the inspection emits an "expires in N hours" result, N = floor(hours
\* left), whatever warnDays is, and no "days" result for that certificate.
C7_Original ==
    \A t \in DOMAIN tasks :
        inspected(t) =>
            \A o \in Occurrences(t) :
                LET d == timeLeft(t, tasks[t].chains[o[1]][o[2]])
                IN  (d >= 0 /\ d <= Hours(shortlyHours)) =>
                        /\ \E i \in itemsAt(t, o[1], o[2]) :
                             tasks[t].emitted[i].res.WarnMsg
                                = <<"expires in ">> \o FmtInt(d \div TicksPerHour) \o <<" hours">>
                        /\ \A i \in itemsAt(t, o[1], o[2]) :
                             ~isDaysMsg(tasks[t].emitted[i].res.WarnMsg)

\* C7 amended: for an inspected host and a certificate of a verified chain that
\* expires within 48 hours and before now + warnDays days, the inspection emits
\* an "expires in N hours" result, N = floor(hours left), and no "days" result
\* for that certificate.
C7_HoursInsideWindow ==
    \A t \in DOMAIN tasks :
        inspected(t) =>
            \A o \in Occurrences(t) :
                LET d == timeLeft(t, tasks[t].chains[o[1]][o[2]])
                IN  (d >= 0 /\ d <= Hours(shortlyHours) /\ d < Hours(warnDays * hoursPerDay)) =>
                        /\ \E i \in itemsAt(t, o[1], o[2]) :
                             tasks[t].emitted[i].res.WarnMsg
                                = <<"expires in ">> \o FmtInt(d \div TicksPerHour) \o <<" hours">>
                        /\ \A i \in itemsAt(t, o[1], o[2]) :
                             ~isDaysMsg(tasks[t].emitted[i].res.WarnMsg)

\* C7 witness: with warnDays = 3, a certificate with exactly 48 hours left has
\* been inspected and its "expires in 48 hours" result has been received.
C7_Witness ==
    /\ warnDays = 3
    /\ Len(tasks) = 1
    /\ tasks[1].pc = "done"
    /\ inspected(1)
    /\ timeLeft(1, tasks[1].chains[1][1]) = Hours(shortlyHours)
    /\ \E i \in DOMAIN window : window[i].WarnMsg = <<"expires in ", "4", "8", " hours">>

deprecatedAt(cert) ==
    /\ cert.SignatureAlgorithm \in DOMAIN sunsetSigAlgs
    /\ cert.NotAfter >= sunsetSigAlgs[cert.SignatureAlgorithm].sunsetsAt

\* C8: for a certificate with a deprecated signature algorithm and notAfter at
\* or after its sunset date that is not in the root position of its chain, the
\* inspection emits exactly one sunset-algorithm result.
C8_OneSunsetResult ==
    \A t \in DOMAIN tasks :
        inspected(t) =>
            \A o \in Occurrences(t) :
                LET cert == tasks[t].chains[o[1]][o[2]]
                IN  (deprecatedAt(cert) /\ o[2] # Len(tasks[t].chains[o[1]])) =>
                        Cardinality({i \in itemsOf(t, cert) :
                            isSunsetMsg(tasks[t].emitted[i].res.WarnMsg)}) = 1

\* C9: no sunset-algorithm result is produced for the certificate in the last
\* (root) position of a verified chain, a chain of length one included: there
\* are no more sunset results than deprecated certificates in other positions.
C9_RootNeverSunset ==
    \A t \in DOMAIN tasks :
        inspected(t) =>
            /\ \A i \in DOMAIN tasks[t].emitted :
                 tasks[t].emitted[i].certNum = Len(tasks[t].chains[tasks[t].emitted[i].chain])
                    => ~isSunsetMsg(tasks[t].emitted[i].res.WarnMsg)
            /\ Cardinality({i \in DOMAIN tasks[t].emitted :
                                isSunsetMsg(tasks[t].emitted[i].res.WarnMsg)})
                 <= Cardinality({o \in Occurrences(t) :
                        /\ tasks[t].chains[o[1]][o[2]].SignatureAlgorithm \in DOMAIN sunsetSigAlgs
                        /\ o[2] # Len(tasks[t].chains[o[1]])})

\* C9 witness: an inspection has ended for a host with two verified chains, one
\* of the MD5-signed leaf alone and one that ends in a SHA1-signed root.
C9_Witness ==
    /\ Len(tasks) = 1
    /\ tasks[1].pc = "done"
    /\ inspected(1)
    /\ Len(tasks[1].chains) = 2
    /\ Len(tasks[1].chains[1]) = 1
    /\ deprecatedAt(tasks[1].chains[1][1])
    /\ Len(tasks[1].chains[2]) = 2
    /\ deprecatedAt(tasks[1].chains[2][2])

results(t) == [i \in DOMAIN tasks[t].emitted |-> tasks[t].emitted[i].res]
allPayloadResults == Flatten([i \in DOMAIN sent |-> payloadResults(sent[i].payload)])
allPending == Flatten([t \in DOMAIN tasks |-> [i \in DOMAIN tasks[t].out |-> tasks[t].out[i].res]])
delivered(f) == Count(allPayloadResults, f)
underway(f) ==
    Count(allPending, f)
      + (IF aggPc = "select" /\ f.WarnMsg \in DOMAIN msgs THEN Count(msgs[f.WarnMsg], f.Host) ELSE 0)

\* C10: a dial that fails with "certificate has expired" yields exactly one
\* result, the hard-expiry message for the dialed host; a dial that fails in
\* any other way yields none; a dial that succeeds never yields the
\* hard-expiry message, and here yields its own "expires in 10 days" result
\* whatever happened to the other hosts.  Each hard-expiry result is either
\* still on its way or in exactly one payload handed to the sink.
C10_ExpiredOnly ==
    /\ \A t \in DOMAIN tasks :
          tasks[t].dialed =>
             /\ tasks[t].err = errX509Expired =>
                    results(t) = <<CheckResult(tasks[t].addr, errExpired)>>
             /\ tasks[t].err \notin {<<>>, errX509Expired} => results(t) = <<>>
             /\ tasks[t].err = <<>> =>
                    results(t) = <<CheckResult(tasks[t].addr, <<"expires in ", "1", "0", " days">>)>>
    /\ \A t \in DOMAIN tasks :
          LET f == CheckResult(tasks[t].addr, errExpired)
          IN  tasks[t].dialed =>
                 delivered(f) + underway(f)
                    = Cardinality({u \in DOMAIN tasks :
                          tasks[u].err = errX509Expired /\ tasks[u].addr = tasks[t].addr})

\* C10 witness: one host failed with an expired certificate and its result is in
\* the one payload delivered; the other host failed with a refused connection
\* and produced nothing.
C10_Witness ==
    /\ Len(tasks) = 2
    /\ tasks[1].err = errX509Expired
    /\ tasks[2].err = errRefused
    /\ tasks[1].pc = "done" /\ tasks[2].pc = "done"
    /\ Len(sent) = 1
    /\ sent[1].result = "ok"
    /\ payloadResults(sent[1].payload) = <<CheckResult(tasks[1].addr, errExpired)>>

isAliyun(g) == fetches[g].kind \in {"getRecords", "fetchWithRetry"}
sameUnit(g, h) ==
    fetches[g].domain = fetches[h].domain /\ fetches[g].dnsType = fetches[h].dnsType
\* The page goroutines started for the unit of getRecords goroutine g.
pagesOf(g) ==
    {h \in DOMAIN fetches : fetches[h].kind = "fetchWithRetry" /\ sameUnit(g, h)}
hostsOnPage(g) ==
    LET rs == recordsOnPage(fetches[g].page, fetches[g].total)
    IN  [i \in DOMAIN rs |-> rs[i] \o <<".">> \o fetches[g].domain]
\* Least n with n * defaultSize >= total.
ceilPages(total) == CHOOSE n \in 0..total : n * defaultSize >= total /\ (n = 0 \/ (n - 1) * defaultSize < total)

\* C11: a (domain, record type) unit of the Aliyun provider whose first page
\* failed maxRetry times has sent no hostname and started no page goroutine,
\* and one warning is logged for it; every other unit is untouched: when its
\* first page has been fetched it has sent the hostnames of that page and
\* started its other pages, and each page that has been fetched has sent its
\* hostnames.  No warning is logged for a unit that has not failed.
C11_FirstPageFailure ==
    /\ \A f \in DOMAIN fetches :
          (fetches[f].kind = "getRecords" /\ fetches[f].pc = "failed") =>
             /\ fetches[f].retry = maxRetry
             /\ fetches[f].sentHosts = <<>>
             /\ pagesOf(f) = {}
             /\ Count(log, [text |-> "Get domain total page failed",
                            domain |-> fetches[f].domain,
                            dnsType |-> fetches[f].dnsType]) = 1
             /\ \A g \in DOMAIN fetches \ {f} :
                   fetches[g].kind = "getRecords" =>
                      /\ fetches[g].pc = "done" =>
                            /\ fetches[g].sentHosts = hostsOnPage(g)
                            /\ {fetches[h].page : h \in pagesOf(g)}
                                  = 2..ceilPages(fetches[g].total)
                      /\ \A h \in pagesOf(g) :
                            fetches[h].pc = "done" => fetches[h].sentHosts = hostsOnPage(h)
    /\ Cardinality({i \in DOMAIN log : log[i].text = "Get domain total page failed"})
          = Cardinality({f \in DOMAIN fetches :
                            fetches[f].kind = "getRecords" /\ fetches[f].pc = "failed"})

\* C11 witness: the CNAME unit has failed three times, the last time with a
\* status other than 200, while the A unit of the same domain, of 201 records,
\* has fetched its three pages and sent their hostnames.
C11_Witness ==
    /\ Len(fetches) = 5
    /\ fetches[3].kind = "getRecords"
    /\ fetches[3].dnsType = "CNAME"
    /\ fetches[3].pc = "failed"
    /\ fetches[3].lastErr = "nil"
    /\ fetches[2].total = 2 * defaultSize + 1
    /\ \A g \in {2, 4, 5} : fetches[g].pc = "done" /\ fetches[g].sentHosts # <<>>
    /\ Len(log) = 1

\* C12: every hostname sent into hostChan is taken from it once and gets one
\* checkHostHttps goroutine, whatever the number of cycles and of dispatch
\* loops: the hostnames sent so far are, in order, those of the goroutines
\* started followed by those still in the channel.
C12_ConsumedOnce ==
    /\ [i \in DOMAIN pushed |-> pushed[i].host]
          = [i \in DOMAIN tasks |-> tasks[i].host] \o hostChan
    /\ Len(tasks) + Len(hostChan) = Len(pushed)

\* C12 witness: two cycles have started two dispatch loops on the channel, both
\* providers have sent their two hostnames, and four inspections have run.
C12_Witness ==
    /\ cycle = 2
    /\ checkers = 2
    /\ \A p \in DOMAIN provs : provs[p].pc = "done"
    /\ Len(pushed) = 4
    /\ hostChan = <<>>
    /\ Len(tasks) = 4
    /\ \A t \in DOMAIN tasks : tasks[t].pc = "done"

\* The results in the payloads handed to the sink of notifier k of
\* config.Notifies, counted from 1.
sinkResults(k) ==
    IF k = 1 THEN allPayloadResults
    ELSE IF k - 1 \in DOMAIN others
         THEN Flatten([i \in DOMAIN others[k - 1].sent |->
                          payloadResults(others[k - 1].sent[i].payload)])
         ELSE <<>>
emittedResults == Flatten([t \in DOMAIN tasks |-> results(t)])
allFlushed ==
    /\ \A p \in DOMAIN provs : provs[p].pc = "done"
    /\ hostChan = <<>>
    /\ \A t \in DOMAIN tasks : tasks[t].pc = "done"
    /\ DOMAIN msgs = {} /\ aggPc = "select"
    /\ \A n \in DOMAIN others : DOMAIN others[n].msgs = {} /\ others[n].aggPc = "select"

\* C13: once every inspection has ended and every notifier has flushed what it
\* received, the payloads handed to the sink of each configured notifier
\* contain every CheckResult the inspections emitted.
C13_EverySink ==
    allFlushed =>
        \A k \in 1..notifies :
            \A i \in DOMAIN emittedResults :
                Count(sinkResults(k), emittedResults[i]) >= Count(emittedResults, emittedResults[i])

\* C14: when main starts a cycle, the hostname queue it uses is empty, no
\* provider goroutine of an earlier cycle is still running on it and no
\* dispatch loop of an earlier cycle is still reading it; the notifier, its
\* map and its ticker are left as they are.
C14_FreshCycle ==
    [][cycle' = cycle + 1 =>
          /\ hostChan = <<>>
          /\ \A p \in DOMAIN provs : provs[p].pc = "done"
          /\ checkers = 0
          /\ <<msgs, aggPc, tickC, sent, others>>' = <<msgs, aggPc, tickC, sent, others>>]_vars

\* C15: a unit whose first page was fetched and reported total count T has one
\* goroutine for each page 2..ceil(T / defaultSize), all started together, and
\* no other: no page is left out, none has two goroutines, and for
\* T <= defaultSize (T = 0 included) there is none.  Every goroutine asks for
\* its own page only, and none exists before the first page is through.
C15_Pagination ==
    \A g \in DOMAIN fetches :
        fetches[g].kind = "getRecords" =>
            /\ fetches[g].page = 1
            /\ fetches[g].pc # "done" => pagesOf(g) = {}
            /\ fetches[g].pc = "done" =>
                  /\ {fetches[h].page : h \in pagesOf(g)} = 2..ceilPages(fetches[g].total)
                  /\ \A h1, h2 \in pagesOf(g) : fetches[h1].page = fetches[h2].page => h1 = h2
                  /\ fetches[g].total <= defaultSize => pagesOf(g) = {}
                  /\ \A h \in pagesOf(g) : fetches[h].total = fetches[g].total

\* C15 witness: the first page reported 201 records, and the goroutines of
\* pages 2 and 3 are both between their call and their return.
C15_Witness ==
    /\ Len(fetches) = 5
    /\ fetches[2].pc = "done"
    /\ fetches[2].total = 2 * defaultSize + 1
    /\ fetches[4].page = 2 /\ fetches[4].pc = "send"
    /\ fetches[5].page = 3 /\ fetches[5].pc = "send"

isPrefix(a, b) == Len(a) <= Len(b) /\ SubSeq(b, 1, Len(a)) = a
westHosts(g) ==
    LET hs == notPaused(SubSeq(westItems, 1, MaxPageRecords + 1))
    IN  [i \in DOMAIN hs |-> hs[i] \o <<".">> \o fetches[g].domain]
isRetryUnit(g) == fetches[g].kind \in {"getRecords", "fetchWithRetry", "west"}
terminalWarnings ==
    {i \in DOMAIN log :
        log[i].text \in {"Get domain total page failed",
                         "ERROR provider west digital failed exceed"}}

\* C16: a page fetch of the Aliyun provider and a query of the West provider
\* make at most maxRetry calls, one more only after a failed one and none
\* after a successful one; hostnames are sent after the successful call only,
\* each once; a unit whose maxRetry calls all failed has sent nothing, and a
\* terminal warning is logged for each such unit and for no other.
C16_BoundedRetry ==
    /\ \A g \in DOMAIN fetches :
          isRetryUnit(g) =>
             /\ fetches[g].retry <= maxRetry
             /\ fetches[g].pc \in {"call", "send", "done"} => fetches[g].retry < maxRetry
             /\ fetches[g].pc \in {"call", "failed"} =>
                   fetches[g].sentHosts = <<>> /\ fetches[g].toPush = <<>>
             /\ fetches[g].pc = "failed" <=> fetches[g].retry = maxRetry
             /\ fetches[g].pc \in {"send", "done"} =>
                   LET all == IF fetches[g].kind = "west" THEN westHosts(g) ELSE hostsOnPage(g)
                   IN  /\ isPrefix(fetches[g].sentHosts, all)
                       /\ Len(fetches[g].sentHosts) + Len(fetches[g].toPush) = Len(all)
                       /\ fetches[g].pc = "done" => fetches[g].sentHosts = all
    /\ Cardinality(terminalWarnings)
          = Cardinality({g \in DOMAIN fetches : isRetryUnit(g) /\ fetches[g].pc = "failed"})

isExpiryMsg(m) == m[1] = "expires in "
expiryItemsAt(t, c, j) ==
    {i \in itemsAt(t, c, j) : isExpiryMsg(tasks[t].emitted[i].res.WarnMsg)}
insideWindow(t, cert) == timeLeft(t, cert) < Hours(warnDays * hoursPerDay)

\* C17 as claimed: after a successful handshake every certificate of a
\* verified chain that is not in the last (root) position and expires before
\* now + warnDays days has an expiry result, and the certificate in the last
\* position has none, whenever it expires.
C17_Original ==
    \A t \in DOMAIN tasks :
        inspected(t) =>
            \A o \in Occurrences(t) :
                IF o[2] = Len(tasks[t].chains[o[1]])
                THEN expiryItemsAt(t, o[1], o[2]) = {}
                ELSE insideWindow(t, tasks[t].chains[o[1]][o[2]])
                        => expiryItemsAt(t, o[1], o[2]) # {}

\* C17 amended: after a successful handshake the expiry check is applied to
\* every certificate of every verified chain, the last (root) position
\* included: a certificate in any position has one expiry result for that
\* position if it expires before now + warnDays days, and none otherwise.
C17_ExpiryEveryPosition ==
    \A t \in DOMAIN tasks :
        inspected(t) =>
            \A o \in Occurrences(t) :
                Cardinality(expiryItemsAt(t, o[1], o[2]))
                    = IF insideWindow(t, tasks[t].chains[o[1]][o[2]]) THEN 1 ELSE 0

\* C17 witness: an inspection has ended for a chain of a leaf that is far from
\* expiry and a root that expires in 40 hours, with warnDays = 3, and the one
\* result is the expiry result of the root position.
C17_Witness ==
    /\ warnDays = 3
    /\ Len(tasks) = 1
    /\ tasks[1].pc = "done"
    /\ inspected(1)
    /\ Len(tasks[1].chains) = 1
    /\ Len(tasks[1].chains[1]) = 2
    /\ ~insideWindow(1, tasks[1].chains[1][1])
    /\ insideWindow(1, tasks[1].chains[1][2])
    /\ Len(tasks[1].emitted) = 1
    /\ tasks[1].emitted[1].certNum = 2
    /\ tasks[1].emitted[1].res.WarnMsg = <<"expires in ", "4", "0", " hours">>

inFlight == Cardinality({t \in DOMAIN tasks : tasks[t].pc # "done"})

\* C18: hostChan never holds more than cacheSize hostnames, and the number of
\* checkHostHttps goroutines that have started and not returned stays within
\* a bound set by the queue: its capacity and one hostname in the hands of
\* each dispatch loop.
C18_Throttle ==
    /\ Len(hostChan) <= cacheSize
    /\ inFlight <= cacheSize + checkers

\* C19: a checkHostHttps goroutine that has a CheckResult to send never has to
\* wait for the notifier: whenever it is at its send, the notifier is at its
\* select and can receive, and is not inside a flush.
C19_SendNeverWaits ==
    \A t \in DOMAIN tasks : tasks[t].pc = "send" => aggPc = "select"

taskAt(t, pcs) == IF t \in DOMAIN tasks THEN tasks[t].pc \in pcs ELSE FALSE

nearestTick(s) ==
    IF s.toTick < waitTime - s.toTick THEN s.toTick ELSE waitTime - s.toTick

\* C21: main sleeps checkInterval - waitTime from the start of each cycle,
\* so that cycles start that far apart, and every cycle starts at the same
\* distance from the nearest tick of the ticker, whatever config.Timeout is.
C21_PhaseAligned ==
    /\ cycle > 0 => wakeAt = starts[cycle].at + (checkInterval - waitTime)
    /\ \A i \in DOMAIN starts :
          i > 1 => starts[i].at - starts[i - 1].at = checkInterval - waitTime
    /\ \A i, j \in DOMAIN starts : nearestTick(starts[i]) = nearestTick(starts[j])

====
